---------------------------- MODULE Spec2Model ----------------------------
(***************************************************************************)
(* RCF / CLN profitability calculator (src/streamlit_app.py).              *)
(*                                                                         *)
(* The Streamlit script main() is re-run from top to bottom on every       *)
(* widget interaction.  The state is the value held by every sidebar       *)
(* widget, plus what the last run put on the page: the sequence of tables  *)
(* it emitted and the exception, if any, that stopped it.  A run in which  *)
(* the Calculate button was not pressed emits no table.                    *)
(*                                                                         *)
(* Numbers: the program computes in Python floats.  They are modelled as   *)
(* exact rationals <<n, d>> in lowest terms with d > 0, so IEEE rounding   *)
(* is not modelled.  Amounts are in millions of ZAR, rates in basis        *)
(* points, so that the documented example (limit 2,000,000,000) fits the   *)
(* model checker's integers.                                               *)
(***************************************************************************)
EXTENDS Integers, Sequences, FiniteSets, TLC

VARIABLES
    rcf_limit, drawn_percentage, cap_cost,
    margin_bps, funding_bps, credit_bps, capital_bps,
    commitment_fee_bps, commitment_fee_funding_bps,
    commitment_fee_credit_bps, commitment_fee_capital_bps,
    include_cln, cln_amount, cln_cost_bps, compare_mode,
    calc_btn, emitted, error,
    previous

inputs == <<rcf_limit, drawn_percentage, cap_cost,
            margin_bps, funding_bps, credit_bps, capital_bps,
            commitment_fee_bps, commitment_fee_funding_bps,
            commitment_fee_credit_bps, commitment_fee_capital_bps,
            include_cln, cln_amount, cln_cost_bps, compare_mode>>

\* previous is a history variable: where previous.tracking holds, it keeps
\* the inputs, tables and error of the calculation that was on the page
\* before the current run.
vars == <<inputs, calc_btn, emitted, error, previous>>

---------------------------------------------------------------------------
(* Rational arithmetic standing for Python float arithmetic.               *)

Abs(n) == IF n < 0 THEN -n ELSE n

RECURSIVE GCD(_, _)
GCD(a, b) == IF b = 0 THEN a ELSE GCD(b, a % b)

\* The rational n/d (d # 0) in lowest terms with a positive denominator.
Q(n, d) ==
    LET nn == n
        dd == d
        g == GCD(Abs(nn), Abs(dd))
    IN  IF dd < 0 THEN <<(-nn) \div g, (-dd) \div g>> ELSE <<nn \div g, dd \div g>>

Zero == <<0, 1>>
One == <<1, 1>>
R(n) == <<n, 1>>

\* Over the least common denominator; two integers add as integers.
RAdd(x, y) ==
    LET a == x
        b == y
        l == (a[2] \div GCD(a[2], b[2])) * b[2]
    IN  IF a[2] = 1 /\ b[2] = 1
        THEN <<a[1] + b[1], 1>>
        ELSE Q(a[1] * (l \div a[2]) + b[1] * (l \div b[2]), l)

RNeg(x) == LET a == x IN <<-a[1], a[2]>>

RSub(x, y) == RAdd(x, RNeg(y))

\* Cancelling across first leaves the product in lowest terms.
RMul(x, y) ==
    LET a == x
        b == y
        g1 == GCD(Abs(a[1]), b[2])
        g2 == GCD(Abs(b[1]), a[2])
    IN  <<(a[1] \div g1) * (b[1] \div g2), (a[2] \div g2) * (b[2] \div g1)>>

\* 1 / y for y # 0.
RInv(y) == LET b == y IN IF b[1] < 0 THEN <<-b[2], -b[1]>> ELSE <<b[2], b[1]>>

\* x / y for y # 0; the callers decide what a zero divisor does.
RDiv(x, y) == RMul(x, RInv(y))

RLt(x, y) == LET a == x  b == y IN a[1] * b[2] < b[1] * a[2]

IsZero(x) == x[1] = 0

RMin(x, y) == LET a == x  b == y IN IF RLt(b, a) THEN b ELSE a

\* Rounding to the nearest integer, ties to even: what f"{x:.0f}" prints.
RoundHalfEven(x) ==
    LET a == x
        q == a[1] \div a[2]
        r == a[1] % a[2]
    IN  IF 2 * r < a[2] THEN q
        ELSE IF 2 * r > a[2] THEN q + 1
        ELSE IF q % 2 = 0 THEN q ELSE q + 1

---------------------------------------------------------------------------
(* Cells and rows of the emitted tables.  A cell is a number or one of the *)
(* strings the program writes; every cell has the same shape so that cells *)
(* can be compared.                                                        *)

Num(x) == [k |-> "num", v |-> x]
Blank == [k |-> "blank", v |-> Zero]
Dash == [k |-> "dash", v |-> Zero]
Warn == [k |-> "warn", v |-> Zero]
\* f"{x * 100:.0f}%"
Pct0(x) == [k |-> "pct0", v |-> R(RoundHalfEven(RMul(x, R(100))))]
\* f"{x:.2f}%"
Pct2(x) == [k |-> "pct2", v |-> LET n == RoundHalfEven(RMul(x, R(100))) IN Q(n, 100)]

\* An Item cell: "<b>text</b>" when bold, the bare text otherwise.
Bold(t) == [text |-> t, bold |-> TRUE]
Plain(t) == [text |-> t, bold |-> FALSE]

Row(item, zar, bps) == [Item |-> item, ZAR |-> zar, BPS |-> bps]


---------------------------------------------------------------------------
(* The widgets' domains.  The program accepts any float in the widget's    *)
(* range; the model draws each input from a small set that contains the    *)
(* widget's default.                                                       *)

MaxLimitSteps == 1

TenThousand == 10000

company_name == "Burger's Burgers"

RcfLimits == {R(k * 2000) : k \in 0..MaxLimitSteps}
DrawnPercentages == {Zero, Q(7, 20), One}
CapCosts == {Zero, R(12), R(1200)}
MarginRates == {R(250)}
FundingRates == {R(-114)}
CreditRates == {R(-29), Zero}
CapitalRates == {R(-115), Zero}
CommitmentFeeRates == {R(75)}
CommitmentFeeFundingRates == {R(-13)}
CommitmentFeeCreditRates == {R(-12), Zero}
CommitmentFeeCapitalRates == {R(-50), Zero}
ClnCosts == {R(-70), R(50)}

ShowClnOnly == "Show CLN Table Only"
CompareSideBySide == "Compare: No CLN vs. CLN"
SingleComparisonTable == "Single Comparison Table"
CompareModes == {ShowClnOnly, CompareSideBySide, SingleComparisonTable}

\* value=rcf_limit * 0.15
DefaultClnAmount(limit) == RMul(limit, Q(3, 20))

\* min_value=0.0, max_value=rcf_limit: the amounts the widget can hold.
ClnAmounts(limit) == {Zero, DefaultClnAmount(limit), limit}

---------------------------------------------------------------------------
(* CALCULATIONS: the No-CLN scenario.  Each definition is the script's     *)
(* local variable of the same name.                                        *)

\* (x / 10_000)
Bps(x) == RDiv(x, R(TenThousand))

undrawn_percentage == RSub(One, drawn_percentage)
drawn_amount == RMul(rcf_limit, drawn_percentage)
\* Mutant: the undrawn amount taken as a share of the drawn amount.
undrawn_amount_of_drawn == RMul(drawn_amount, undrawn_percentage)

undrawn_amount == RMul(rcf_limit, undrawn_percentage)

\* Mutant: the margin earned on the whole facility.
margin_zar_on_limit == RMul(rcf_limit, Bps(margin_bps))

margin_zar == RMul(drawn_amount, Bps(margin_bps))

funding_zar == RMul(drawn_amount, Bps(funding_bps))
credit_zar == RMul(drawn_amount, Bps(credit_bps))
capital_zar == RMul(drawn_amount, Bps(capital_bps))

total_cost_bps == RAdd(RAdd(funding_bps, credit_bps), capital_bps)
total_cost_zar == RAdd(RAdd(funding_zar, credit_zar), capital_zar)

net_spread_zar == RAdd(margin_zar, total_cost_zar)

\* Mutant: the net spread weighted by the drawn percentage.
net_spread_bps_scaled == RMul(RAdd(margin_bps, total_cost_bps), drawn_percentage)

net_spread_bps == RAdd(margin_bps, total_cost_bps)

commitment_fee_zar == RMul(undrawn_amount, Bps(commitment_fee_bps))

comm_fee_funding_zar == RMul(undrawn_amount, Bps(commitment_fee_funding_bps))
comm_fee_credit_zar == RMul(undrawn_amount, Bps(commitment_fee_credit_bps))
comm_fee_capital_zar == RMul(undrawn_amount, Bps(commitment_fee_capital_bps))

\* Mutant: the undrawn net rate without its capital leg.
net_commit_bps_without_capital ==
    RAdd(RAdd(commitment_fee_bps, commitment_fee_funding_bps),
         commitment_fee_credit_bps)

net_commit_bps ==
    RAdd(RAdd(RAdd(commitment_fee_bps, commitment_fee_funding_bps),
              commitment_fee_credit_bps),
         commitment_fee_capital_bps)
\* Mutant: the undrawn net spread charged on the drawn amount.
net_spread_commit_fees_zar_on_drawn == RMul(drawn_amount, Bps(net_commit_bps))

net_spread_commit_fees_zar == RMul(undrawn_amount, Bps(net_commit_bps))
net_spread_commit_fees_bps == net_commit_bps

\* BLENDED VIEW
blended_view_margin_zar == RAdd(margin_zar, commitment_fee_zar)
blended_view_margin_bps ==
    RAdd(RMul(margin_bps, drawn_percentage),
         RMul(commitment_fee_bps, undrawn_percentage))

blended_view_funding_zar == RAdd(funding_zar, comm_fee_funding_zar)
\* Mutant: the two funding rates added without their weights.
blended_view_funding_bps_unweighted == RAdd(funding_bps, commitment_fee_funding_bps)

blended_view_funding_bps ==
    RAdd(RMul(funding_bps, drawn_percentage),
         RMul(commitment_fee_funding_bps, undrawn_percentage))

blended_view_cln_zar == Zero

\* Mutant: the No-CLN blended view charged the CLN cost rate.
blended_view_cln_bps_of_cln_cost == cln_cost_bps

blended_view_cln_bps == Zero

blended_view_credit_zar == RAdd(credit_zar, comm_fee_credit_zar)
blended_view_credit_bps ==
    RAdd(RMul(credit_bps, drawn_percentage),
         RMul(commitment_fee_credit_bps, undrawn_percentage))

blended_view_capital_zar == RAdd(capital_zar, comm_fee_capital_zar)
\* Mutant: the blended capital leg weighted by the capital cost rate.
blended_view_capital_bps_at_cap_cost ==
    RMul(RAdd(RMul(capital_bps, drawn_percentage),
              RMul(commitment_fee_capital_bps, undrawn_percentage)),
         cap_cost)

blended_view_capital_bps ==
    RAdd(RMul(capital_bps, drawn_percentage),
         RMul(commitment_fee_capital_bps, undrawn_percentage))

blended_view_net_revenue_zar ==
    RAdd(RAdd(RAdd(RAdd(blended_view_margin_zar, blended_view_funding_zar),
                   blended_view_cln_zar),
              blended_view_credit_zar),
         blended_view_capital_zar)
blended_view_net_revenue_bps ==
    RAdd(RAdd(RAdd(RAdd(blended_view_margin_bps, blended_view_funding_bps),
                   blended_view_cln_bps),
              blended_view_credit_bps),
         blended_view_capital_bps)

\* Mutant: the ROC divided by the capital rate, not by its negation.
blended_view_roc_bps_sign_kept ==
    IF IsZero(blended_view_capital_bps)
    THEN Zero
    ELSE RMul(RDiv(RAdd(RAdd(RAdd(blended_view_margin_bps,
                                  blended_view_funding_bps),
                             blended_view_cln_bps),
                        blended_view_credit_bps),
                   blended_view_capital_bps),
              cap_cost)

\* ROC: the guard leaves the division no zero divisor, so the except
\* branch (ROC = 0 as well) is never taken.
blended_view_roc_bps ==
    IF IsZero(blended_view_capital_bps)
    THEN Zero
    ELSE RMul(RDiv(RAdd(RAdd(RAdd(blended_view_margin_bps,
                                  blended_view_funding_bps),
                             blended_view_cln_bps),
                        blended_view_credit_bps),
                   RNeg(blended_view_capital_bps)),
              cap_cost)

\* Mutant: the facility summary listed right after the header.
rows_summary_first == <<
    Row(Bold(company_name), Blank, Blank),
    Row(Bold("Facility Amount"), Num(rcf_limit), Pct0(One)),
    Row(Bold("Drawn"), Num(drawn_amount), Pct0(drawn_percentage)),
    Row(Bold("Undrawn"), Num(undrawn_amount), Pct0(undrawn_percentage)),
    Row(Plain(""), Blank, Blank),
    Row(Bold("Margin"), Num(margin_zar), Num(margin_bps)),
    Row(Bold("Total Cost"), Num(total_cost_zar), Num(total_cost_bps)),
    Row(Plain("Funding"), Num(funding_zar), Num(funding_bps)),
    Row(Plain("Credit"), Num(credit_zar), Num(credit_bps)),
    Row(Plain("Capital"), Num(capital_zar), Num(capital_bps)),
    Row(Bold("Net Spread"), Num(net_spread_zar), Num(net_spread_bps)),
    Row(Plain(""), Blank, Blank),
    Row(Bold("Commitment Fee"), Num(commitment_fee_zar), Num(commitment_fee_bps)),
    Row(Plain("Funding"), Num(comm_fee_funding_zar), Num(commitment_fee_funding_bps)),
    Row(Plain("Credit Cost"), Num(comm_fee_credit_zar), Num(commitment_fee_credit_bps)),
    Row(Plain("Capital Cost"), Num(comm_fee_capital_zar), Num(commitment_fee_capital_bps)),
    Row(Bold("Net Spread"), Num(net_spread_commit_fees_zar), Num(net_spread_commit_fees_bps)),
    Row(Plain(""), Blank, Blank),
    Row(Bold("Blended View"), Blank, Blank),
    Row(Plain("  Margin"), Num(blended_view_margin_zar), Num(blended_view_margin_bps)),
    Row(Plain("  Funding"), Num(blended_view_funding_zar), Num(blended_view_funding_bps)),
    Row(Plain("  CLN Cost"), Num(blended_view_cln_zar), Num(blended_view_cln_bps)),
    Row(Plain("  Credit"), Num(blended_view_credit_zar), Num(blended_view_credit_bps)),
    Row(Plain("  Capital"), Num(blended_view_capital_zar), Num(blended_view_capital_bps)),
    Row(Bold("Net Revenue"), Num(blended_view_net_revenue_zar), Num(blended_view_net_revenue_bps)),
    Row(Bold("ROC (bps)"), Blank, Num(blended_view_roc_bps)) >>

\* BUILD THE OUTPUT TABLE
rows == <<
    Row(Bold(company_name), Blank, Blank),
    Row(Bold("Margin"), Num(margin_zar), Num(margin_bps)),
    Row(Bold("Total Cost"), Num(total_cost_zar), Num(total_cost_bps)),
    Row(Plain("Funding"), Num(funding_zar), Num(funding_bps)),
    Row(Plain("Credit"), Num(credit_zar), Num(credit_bps)),
    Row(Plain("Capital"), Num(capital_zar), Num(capital_bps)),
    Row(Bold("Net Spread"), Num(net_spread_zar), Num(net_spread_bps)),
    Row(Plain(""), Blank, Blank),
    Row(Bold("Commitment Fee"), Num(commitment_fee_zar), Num(commitment_fee_bps)),
    Row(Plain("Funding"), Num(comm_fee_funding_zar), Num(commitment_fee_funding_bps)),
    Row(Plain("Credit Cost"), Num(comm_fee_credit_zar), Num(commitment_fee_credit_bps)),
    Row(Plain("Capital Cost"), Num(comm_fee_capital_zar), Num(commitment_fee_capital_bps)),
    Row(Bold("Net Spread"), Num(net_spread_commit_fees_zar), Num(net_spread_commit_fees_bps)),
    Row(Plain(""), Blank, Blank),
    Row(Bold("Blended View"), Blank, Blank),
    Row(Plain("  Margin"), Num(blended_view_margin_zar), Num(blended_view_margin_bps)),
    Row(Plain("  Funding"), Num(blended_view_funding_zar), Num(blended_view_funding_bps)),
    Row(Plain("  CLN Cost"), Num(blended_view_cln_zar), Num(blended_view_cln_bps)),
    Row(Plain("  Credit"), Num(blended_view_credit_zar), Num(blended_view_credit_bps)),
    Row(Plain("  Capital"), Num(blended_view_capital_zar), Num(blended_view_capital_bps)),
    Row(Bold("Net Revenue"), Num(blended_view_net_revenue_zar), Num(blended_view_net_revenue_bps)),
    Row(Bold("ROC (bps)"), Blank, Num(blended_view_roc_bps)),
    Row(Plain(""), Blank, Blank),
    Row(Bold("Facility Amount"), Num(rcf_limit), Pct0(One)),
    Row(Bold("Drawn"), Num(drawn_amount), Pct0(drawn_percentage)),
    Row(Bold("Undrawn"), Num(undrawn_amount), Pct0(undrawn_percentage)) >>

---------------------------------------------------------------------------
(* CLN Calculations (if enabled).  The definitions below are the script's  *)
(* locals in the branch "if include_cln and cln_amount > 0"; those that    *)
(* read cln_percentage are evaluated only where the division succeeded.    *)


\* Mutant: the CLN branch entered on the checkbox alone.
ClnRequested_checkbox_only == include_cln

\* Mutant: the CLN branch entered for an amount of 0 as well.
ClnRequested_zero_amount_included == include_cln /\ ~RLt(cln_amount, Zero)

ClnRequested == include_cln /\ RLt(Zero, cln_amount)

\* Mutant: the clamp left out.
cln_amount_unclamped == cln_amount

\* cln_amount = min(cln_amount, rcf_limit): the script's local after the
\* clamp (the widget keeps the value the user entered).
cln_amount_clamped == RMin(cln_amount, rcf_limit)

\* cln_amount / rcf_limit on floats raises ZeroDivisionError for a zero
\* divisor, whatever the dividend.
ClnPercentageRaises == IsZero(rcf_limit)

cln_percentage == RDiv(cln_amount_clamped, rcf_limit)

cln_margin_bps == margin_bps
cln_margin_zar == RMul(drawn_amount, Bps(cln_margin_bps))


\* Mutant: funding scaled like a credit-risk-sensitive rate.
cln_funding_bps_scaled == RMul(funding_bps, RSub(One, cln_percentage))

cln_funding_bps == funding_bps
cln_funding_zar == funding_zar


\* Mutant: the credit rate passed through unscaled.
cln_credit_bps_unscaled == credit_bps

cln_credit_bps == RMul(credit_bps, RSub(One, cln_percentage))
cln_credit_zar == RMul(drawn_amount, Bps(cln_credit_bps))

\* Mutant: the drawn capital rate not scaled by the uncovered share.
cln_capital_bps_unscaled == capital_bps

cln_capital_bps == RMul(capital_bps, RSub(One, cln_percentage))
cln_capital_zar == RMul(drawn_amount, Bps(cln_capital_bps))

cln_specific_cost_zar == RMul(cln_amount_clamped, Bps(cln_cost_bps))

cln_total_cost_bps == RAdd(RAdd(cln_funding_bps, cln_credit_bps), cln_capital_bps)
cln_total_cost_zar == RMul(drawn_amount, Bps(cln_total_cost_bps))

cln_net_spread_zar == RAdd(cln_margin_zar, cln_total_cost_zar)
cln_net_spread_bps == RAdd(cln_margin_bps, cln_total_cost_bps)

cln_commitment_fee_bps == commitment_fee_bps
cln_commitment_fee_zar == RMul(undrawn_amount, Bps(cln_commitment_fee_bps))

cln_comm_fee_funding_bps == commitment_fee_funding_bps
cln_comm_fee_funding_zar == RMul(undrawn_amount, Bps(cln_comm_fee_funding_bps))

cln_commit_fee_credit_bps == RMul(commitment_fee_credit_bps, RSub(One, cln_percentage))
cln_commit_fee_credit_zar == RMul(undrawn_amount, Bps(cln_commit_fee_credit_bps))

cln_commit_fee_capital_bps == RMul(commitment_fee_capital_bps, RSub(One, cln_percentage))
cln_commit_fee_capital_zar == RMul(undrawn_amount, Bps(cln_commit_fee_capital_bps))

cln_commit_fee_total_bps ==
    RAdd(RAdd(RAdd(cln_commitment_fee_bps, cln_comm_fee_funding_bps),
              cln_commit_fee_credit_bps),
         cln_commit_fee_capital_bps)

cln_net_commit_fee_bps == cln_commit_fee_total_bps
cln_net_commit_fee_zar == RMul(undrawn_amount, Bps(cln_net_commit_fee_bps))

cln_blended_margin_zar == RAdd(cln_margin_zar, cln_commitment_fee_zar)
cln_blended_margin_bps ==
    RAdd(RMul(cln_margin_bps, drawn_percentage),
         RMul(commitment_fee_bps, undrawn_percentage))

cln_blended_funding_zar == RAdd(cln_funding_zar, cln_comm_fee_funding_zar)
cln_blended_funding_bps ==
    RAdd(RMul(cln_funding_bps, drawn_percentage),
         RMul(cln_comm_fee_funding_bps, undrawn_percentage))

cln_blended_credit_zar == RAdd(cln_credit_zar, cln_commit_fee_credit_zar)
\* Mutant: the blended credit rate as the unweighted sum of the two rates.
cln_blended_credit_bps_unweighted == RAdd(cln_credit_bps, cln_commit_fee_credit_bps)

cln_blended_credit_bps ==
    RAdd(RMul(cln_credit_bps, drawn_percentage),
         RMul(cln_commit_fee_credit_bps, undrawn_percentage))

cln_blended_capital_zar == RAdd(cln_capital_zar, cln_commit_fee_capital_zar)
cln_blended_capital_bps ==
    RAdd(RMul(cln_capital_bps, drawn_percentage),
         RMul(cln_commit_fee_capital_bps, undrawn_percentage))

blended_cln_cost_zar == cln_specific_cost_zar
\* Mutant: the CLN cost rate left on the CLN notional.
blended_cln_cost_bps_on_notional == cln_cost_bps

blended_cln_cost_bps == RMul(cln_cost_bps, cln_percentage)

\* Mutant: the net revenue without the CLN cost leg.
cln_blended_netrev_zar_without_cln_cost ==
    RAdd(RAdd(RAdd(cln_blended_margin_zar, cln_blended_funding_zar),
              cln_blended_credit_zar),
         cln_blended_capital_zar)

cln_blended_netrev_zar ==
    RAdd(RAdd(RAdd(RAdd(cln_blended_margin_zar, cln_blended_funding_zar),
                   blended_cln_cost_zar),
              cln_blended_credit_zar),
         cln_blended_capital_zar)

cln_blended_netrev_bps ==
    RAdd(RAdd(RAdd(RAdd(cln_blended_margin_bps, cln_blended_funding_bps),
                   blended_cln_cost_bps),
              cln_blended_credit_bps),
         cln_blended_capital_bps)


\* Mutant: the zero-capital branch yields the capital cost rate, not 0.
cln_roc_bps_zero_branch_wrong ==
    IF ~IsZero(cln_blended_capital_bps)
    THEN RMul(RDiv(RAdd(RAdd(RAdd(cln_blended_margin_bps,
                                  cln_blended_funding_bps),
                             blended_cln_cost_bps),
                        cln_blended_credit_bps),
                   RNeg(cln_blended_capital_bps)),
              cap_cost)
    ELSE cap_cost

cln_roc_bps ==
    IF ~IsZero(cln_blended_capital_bps)
    THEN RMul(RDiv(RAdd(RAdd(RAdd(cln_blended_margin_bps,
                                  cln_blended_funding_bps),
                             blended_cln_cost_bps),
                        cln_blended_credit_bps),
                   RNeg(cln_blended_capital_bps)),
              cap_cost)
    ELSE Zero

cln_rows == <<
    Row(Bold("CLN Scenario"), Blank, Blank),
    Row(Plain("CLN Amount"), Num(cln_amount_clamped), Pct0(cln_percentage)),
    Row(Bold("Margin"), Num(cln_margin_zar), Num(cln_margin_bps)),
    Row(Bold("Total Cost"), Num(cln_total_cost_zar), Num(cln_total_cost_bps)),
    Row(Plain("Funding"), Num(cln_funding_zar), Num(cln_funding_bps)),
    Row(Plain("Credit"), Num(cln_credit_zar), Num(cln_credit_bps)),
    Row(Plain("Capital"), Num(cln_capital_zar), Num(cln_capital_bps)),
    Row(Bold("Net Spread"), Num(cln_net_spread_zar), Num(cln_net_spread_bps)),
    Row(Plain(""), Blank, Blank),
    Row(Bold("Commitment Fee"), Num(cln_commitment_fee_zar), Num(cln_commitment_fee_bps)),
    Row(Plain("Funding"), Num(cln_comm_fee_funding_zar), Num(cln_comm_fee_funding_bps)),
    Row(Plain("Credit Cost"), Num(cln_commit_fee_credit_zar), Num(cln_commit_fee_credit_bps)),
    Row(Plain("Capital Cost"), Num(cln_commit_fee_capital_zar), Num(cln_commit_fee_capital_bps)),
    Row(Bold("Net Spread"), Num(cln_net_commit_fee_zar), Num(cln_net_commit_fee_bps)),
    Row(Plain(""), Blank, Blank),
    Row(Bold("CLN Cost"), Num(cln_specific_cost_zar), Num(cln_cost_bps)),
    Row(Plain(""), Blank, Blank),
    Row(Bold("Blended View"), Blank, Blank),
    Row(Plain("Margin"), Num(cln_blended_margin_zar), Num(cln_blended_margin_bps)),
    Row(Plain("Funding"), Num(cln_blended_funding_zar), Num(cln_blended_funding_bps)),
    Row(Plain("CLN Cost"), Num(blended_cln_cost_zar), Num(blended_cln_cost_bps)),
    Row(Plain("Credit"), Num(cln_blended_credit_zar), Num(cln_blended_credit_bps)),
    Row(Plain("Capital"), Num(cln_blended_capital_zar), Num(cln_blended_capital_bps)),
    Row(Bold("Net Revenue"), Num(cln_blended_netrev_zar), Num(cln_blended_netrev_bps)),
    Row(Bold("ROC (bps)"), Blank, Num(cln_roc_bps)),
    Row(Plain(""), Blank, Blank),
    Row(Bold("Facility Amount"), Num(rcf_limit), Pct0(One)),
    Row(Bold("Drawn"), Num(drawn_amount), Pct0(drawn_percentage)),
    Row(Bold("Undrawn"), Num(undrawn_amount), Pct0(undrawn_percentage)) >>

---------------------------------------------------------------------------
(* The single comparison table.  Its CLN columns are named after the       *)
(* clamped CLN amount, f"R{cln_amount:,.0f} CLN_ZAR" and "... CLN_bps".    *)

RocWarnThreshold == 999

CRow(item, no_cln_zar, no_cln_bps, cln_zar, cln_bps_cell, differential, bps) ==
    [Item |-> item, NO_CLN_ZAR |-> no_cln_zar, NO_CLN_bps |-> no_cln_bps,
     CLN_ZAR |-> cln_zar, CLN_bps |-> cln_bps_cell,
     Differential |-> differential, bps |-> bps]

EmptyCRow(t) == CRow(Plain(t), Blank, Blank, Blank, Blank, Blank, Blank)

\* A line item present in both scenarios: the six numeric cells of its row.

\* Mutant: the differential taken the wrong way round.
DiffRow_reversed(t, no_zar, no_bps, c_zar, c_bps) ==
    CRow(Plain(t), Num(no_zar), Num(no_bps), Num(c_zar), Num(c_bps),
         Num(RSub(no_zar, c_zar)), Num(RSub(no_bps, c_bps)))

DiffRow(t, no_zar, no_bps, c_zar, c_bps) ==
    CRow(Plain(t), Num(no_zar), Num(no_bps), Num(c_zar), Num(c_bps),
         Num(RSub(c_zar, no_zar)), Num(RSub(c_bps, no_bps)))

\* A line item of the CLN scenario only.
\* Mutant: a numeric 0 as the No-CLN side of a CLN-only row.
ClnOnlyRow_zero_base(t, c_zar, c_bps) ==
    CRow(Plain(t), Num(Zero), Num(Zero), Num(c_zar), Num(c_bps), Num(c_zar), Num(c_bps))

ClnOnlyRow(t, c_zar, c_bps) ==
    CRow(Plain(t), Dash, Dash, Num(c_zar), Num(c_bps), Num(c_zar), Num(c_bps))

\* Mutant: the ROC row without its warning branch.
RocRow_never_warns ==
    CRow(Plain("ROC"), Blank, Pct2(blended_view_roc_bps), Blank,
         Pct2(cln_roc_bps), Blank, Pct2(RSub(cln_roc_bps, blended_view_roc_bps)))

RocRow ==
    CRow(Plain("ROC"), Blank, Pct2(blended_view_roc_bps), Blank,
         IF RLt(R(RocWarnThreshold), cln_roc_bps) THEN Warn ELSE Pct2(cln_roc_bps),
         Blank,
         IF RLt(R(RocWarnThreshold), cln_roc_bps)
         THEN Warn
         ELSE Pct2(RSub(cln_roc_bps, blended_view_roc_bps)))

\* Facility Amount, Drawn, Undrawn: the same cells on both sides, no differential.
FacilityRow(t, zar, pct) ==
    CRow(Plain(t), Num(zar), Pct0(pct), Num(zar), Pct0(pct), Blank, Blank)

comparison_rows == <<
    EmptyCRow(company_name),
    DiffRow("Margin", margin_zar, margin_bps, cln_margin_zar, cln_margin_bps),
    DiffRow("Total Cost", total_cost_zar, total_cost_bps, cln_total_cost_zar, cln_total_cost_bps),
    DiffRow("Funding", funding_zar, funding_bps, cln_funding_zar, cln_funding_bps),
    DiffRow("Credit", credit_zar, credit_bps, cln_credit_zar, cln_credit_bps),
    DiffRow("Capital", capital_zar, capital_bps, cln_capital_zar, cln_capital_bps),
    DiffRow("Net Spread", net_spread_zar, net_spread_bps, cln_net_spread_zar, cln_net_spread_bps),
    EmptyCRow(""),
    DiffRow("Commitment fee", commitment_fee_zar, commitment_fee_bps,
            cln_commitment_fee_zar, cln_commitment_fee_bps),
    DiffRow("Funding", comm_fee_funding_zar, commitment_fee_funding_bps,
            cln_comm_fee_funding_zar, cln_comm_fee_funding_bps),
    DiffRow("Credit Cost", comm_fee_credit_zar, commitment_fee_credit_bps,
            cln_commit_fee_credit_zar, cln_commit_fee_credit_bps),
    DiffRow("Capital Cost", comm_fee_capital_zar, commitment_fee_capital_bps,
            cln_commit_fee_capital_zar, cln_commit_fee_capital_bps),
    DiffRow("Net Spread", net_spread_commit_fees_zar, net_spread_commit_fees_bps,
            cln_net_commit_fee_zar, cln_net_commit_fee_bps),
    EmptyCRow(""),
    ClnOnlyRow("CLN Cost", cln_specific_cost_zar, cln_cost_bps),
    EmptyCRow(""),
    EmptyCRow("Blended View"),
    DiffRow("Margin", blended_view_margin_zar, blended_view_margin_bps,
            cln_blended_margin_zar, cln_blended_margin_bps),
    DiffRow("Funding", blended_view_funding_zar, blended_view_funding_bps,
            cln_blended_funding_zar, cln_blended_funding_bps),
    ClnOnlyRow("CLN Cost", blended_cln_cost_zar, blended_cln_cost_bps),
    DiffRow("Credit", blended_view_credit_zar, blended_view_credit_bps,
            cln_blended_credit_zar, cln_blended_credit_bps),
    DiffRow("Capital", blended_view_capital_zar, blended_view_capital_bps,
            cln_blended_capital_zar, cln_blended_capital_bps),
    DiffRow("Net Revenue", blended_view_net_revenue_zar, blended_view_net_revenue_bps,
            cln_blended_netrev_zar, cln_blended_netrev_bps),
    EmptyCRow(""),
    RocRow,
    EmptyCRow(""),
    FacilityRow("Facility Amount", rcf_limit, One),
    FacilityRow("Drawn", drawn_amount, drawn_percentage),
    FacilityRow("Undrawn", undrawn_amount, undrawn_percentage),
    EmptyCRow(""),
    CRow(Plain("CLN Note"), Dash, Pct0(Zero), Num(cln_amount_clamped),
         Pct0(cln_percentage), Blank, Blank) >>

---------------------------------------------------------------------------
(* What a run puts on the page: each table under its st.subheader, in the  *)
(* order of emission.                                                      *)

Table(subheader, table_rows) == [subheader |-> subheader, rows |-> table_rows]

NoClnOutputTable == Table("NO CLN Output Table", rows)

\* Mutant: the two scenarios under each other's heading.
ClnOutput_side_by_side_swapped ==
    IF compare_mode = ShowClnOnly
    THEN << Table("CLN Scenario Results", cln_rows) >>
    ELSE IF compare_mode = CompareSideBySide
    THEN << Table("No CLN Scenario", cln_rows), Table("CLN Scenario", rows) >>
    ELSE IF compare_mode = SingleComparisonTable
    THEN << [subheader |-> "CLN Comparison Analysis",
             rows |-> comparison_rows,
             cln_column |-> RoundHalfEven(cln_amount_clamped)] >>
    ELSE << >>

\* The branch taken on compare_mode once the CLN scenario is computed.
ClnOutput ==
    IF compare_mode = ShowClnOnly
    THEN << Table("CLN Scenario Results", cln_rows) >>
    ELSE IF compare_mode = CompareSideBySide
    THEN << Table("No CLN Scenario", rows), Table("CLN Scenario", cln_rows) >>
    ELSE IF compare_mode = SingleComparisonTable
    THEN << [subheader |-> "CLN Comparison Analysis",
             rows |-> comparison_rows,
             cln_column |-> RoundHalfEven(cln_amount_clamped)] >>
    ELSE << >>

---------------------------------------------------------------------------
(* The runs of the script.                                                 *)

InitRun ==
    /\ rcf_limit = R(2000)
    /\ drawn_percentage = Q(7, 20)
    /\ cap_cost = R(12)
    /\ margin_bps = R(250)
    /\ funding_bps = R(-114)
    /\ credit_bps = R(-29)
    /\ capital_bps = R(-115)
    /\ commitment_fee_bps = R(75)
    /\ commitment_fee_funding_bps = R(-13)
    /\ commitment_fee_credit_bps = R(-12)
    /\ commitment_fee_capital_bps = R(-50)
    /\ include_cln = FALSE
    /\ cln_amount = Zero
    /\ cln_cost_bps = Zero
    /\ compare_mode = ShowClnOnly
    /\ calc_btn = FALSE
    /\ emitted = << >>
    /\ error = "none"

Init == InitRun /\ previous = [tracking |-> FALSE, calc |-> << >>]

\* Every run replaces the page; the calculation it replaces is remembered.
Remember ==
    previous' = IF previous.tracking /\ calc_btn
                THEN [tracking |-> TRUE, calc |-> <<inputs, emitted, error>>]
                ELSE previous

\* Mutant: a run without Calculate that leaves the tables on the page.
NoCalcRun_keeps_tables ==
    /\ Remember
    /\ calc_btn' = FALSE
    /\ emitted' = emitted
    /\ error' = "none"

\* A run in which Calculate was not pressed: nothing below "if calc_btn:".
NoCalcRun ==
    /\ Remember
    /\ calc_btn' = FALSE
    /\ emitted' = << >>
    /\ error' = "none"

\* The RCF limit is the CLN amount widget's max_value and fixes its default:
\* changing it re-creates that widget at its default.
SetRcfLimit(v) ==
    /\ rcf_limit' = v
    /\ cln_amount' = IF include_cln THEN DefaultClnAmount(v) ELSE Zero
    /\ UNCHANGED <<drawn_percentage, cap_cost, margin_bps, funding_bps,
                   credit_bps, capital_bps, commitment_fee_bps,
                   commitment_fee_funding_bps, commitment_fee_credit_bps,
                   commitment_fee_capital_bps, include_cln, cln_cost_bps,
                   compare_mode>>
    /\ NoCalcRun

SetDrawnPercentage(v) ==
    /\ drawn_percentage' = v
    /\ UNCHANGED <<rcf_limit, cap_cost, margin_bps, funding_bps,
                   credit_bps, capital_bps, commitment_fee_bps,
                   commitment_fee_funding_bps, commitment_fee_credit_bps,
                   commitment_fee_capital_bps, include_cln, cln_amount,
                   cln_cost_bps, compare_mode>>
    /\ NoCalcRun

SetCapCost(v) ==
    /\ cap_cost' = v
    /\ UNCHANGED <<rcf_limit, drawn_percentage, margin_bps, funding_bps,
                   credit_bps, capital_bps, commitment_fee_bps,
                   commitment_fee_funding_bps, commitment_fee_credit_bps,
                   commitment_fee_capital_bps, include_cln, cln_amount,
                   cln_cost_bps, compare_mode>>
    /\ NoCalcRun

\* The four rates of the expander "Total Cost (Drawn Portion) Inputs".
SetDrawnRates(m, f, c, k) ==
    /\ margin_bps' = m
    /\ funding_bps' = f
    /\ credit_bps' = c
    /\ capital_bps' = k
    /\ UNCHANGED <<rcf_limit, drawn_percentage, cap_cost, commitment_fee_bps,
                   commitment_fee_funding_bps, commitment_fee_credit_bps,
                   commitment_fee_capital_bps, include_cln, cln_amount,
                   cln_cost_bps, compare_mode>>
    /\ NoCalcRun

\* The four rates of the expander "Commitment Fee (Undrawn) Inputs".
SetUndrawnRates(m, f, c, k) ==
    /\ commitment_fee_bps' = m
    /\ commitment_fee_funding_bps' = f
    /\ commitment_fee_credit_bps' = c
    /\ commitment_fee_capital_bps' = k
    /\ UNCHANGED <<rcf_limit, drawn_percentage, cap_cost, margin_bps,
                   funding_bps, credit_bps, capital_bps, include_cln,
                   cln_amount, cln_cost_bps, compare_mode>>
    /\ NoCalcRun

\* The checkbox "Include CLN Issuance?".  Unchecked, the script assigns
\* cln_amount = 0.0, cln_cost_bps = 0.0 and the first display mode; checked
\* anew, the three CLN widgets appear at their defaults.
SetIncludeCln(b) ==
    /\ include_cln' = b
    /\ IF b /\ include_cln
       THEN UNCHANGED <<cln_amount, cln_cost_bps, compare_mode>>
       ELSE IF b
       THEN /\ cln_amount' = DefaultClnAmount(rcf_limit)
            /\ cln_cost_bps' = R(-70)
            /\ compare_mode' = ShowClnOnly
       ELSE /\ cln_amount' = Zero
            /\ cln_cost_bps' = Zero
            /\ compare_mode' = ShowClnOnly
    /\ UNCHANGED <<rcf_limit, drawn_percentage, cap_cost, margin_bps,
                   funding_bps, credit_bps, capital_bps, commitment_fee_bps,
                   commitment_fee_funding_bps, commitment_fee_credit_bps,
                   commitment_fee_capital_bps>>
    /\ NoCalcRun

ClnWidgetsFrame ==
    UNCHANGED <<rcf_limit, drawn_percentage, cap_cost, margin_bps,
                funding_bps, credit_bps, capital_bps, commitment_fee_bps,
                commitment_fee_funding_bps, commitment_fee_credit_bps,
                commitment_fee_capital_bps, include_cln>>

\* The CLN amount widget, shown only when include_cln, holds 0 <= v <= rcf_limit.
SetClnAmount(v) ==
    /\ include_cln
    /\ ~RLt(v, Zero) /\ ~RLt(rcf_limit, v)
    /\ cln_amount' = v
    /\ UNCHANGED <<cln_cost_bps, compare_mode>>
    /\ ClnWidgetsFrame
    /\ NoCalcRun

SetClnCost(v) ==
    /\ include_cln
    /\ cln_cost_bps' = v
    /\ UNCHANGED <<cln_amount, compare_mode>>
    /\ ClnWidgetsFrame
    /\ NoCalcRun

SetCompareMode(m) ==
    /\ include_cln
    /\ compare_mode' = m
    /\ UNCHANGED <<cln_amount, cln_cost_bps>>
    /\ ClnWidgetsFrame
    /\ NoCalcRun

\* Calculate, were the tables of the run before kept on the page.
Calculate_accumulating ==
    /\ Remember
    /\ calc_btn' = TRUE
    /\ UNCHANGED inputs
    /\ IF ~ClnRequested
       THEN /\ emitted' = emitted \o << NoClnOutputTable >>
            /\ error' = "none"
       ELSE IF ClnPercentageRaises
       THEN /\ emitted' = emitted \o << NoClnOutputTable >>
            /\ error' = "ZeroDivisionError"
       ELSE /\ emitted' = emitted \o << NoClnOutputTable >> \o ClnOutput
            /\ error' = "none"

\* The Calculate button: the whole "if calc_btn:" block.  The No-CLN table
\* is on the page before the CLN branch starts, so it stays there when the
\* CLN branch raises.
Calculate ==
    /\ Remember
    /\ calc_btn' = TRUE
    /\ UNCHANGED inputs
    /\ IF ~ClnRequested
       THEN /\ emitted' = << NoClnOutputTable >>
            /\ error' = "none"
       ELSE IF ClnPercentageRaises
       THEN /\ emitted' = << NoClnOutputTable >>
            /\ error' = "ZeroDivisionError"
       ELSE /\ emitted' = << NoClnOutputTable >> \o ClnOutput
            /\ error' = "none"

Widgets ==
    \/ \E v \in RcfLimits : SetRcfLimit(v)
    \/ \E v \in DrawnPercentages : SetDrawnPercentage(v)
    \/ \E v \in CapCosts : SetCapCost(v)
    \/ \E m \in MarginRates, f \in FundingRates, c \in CreditRates, k \in CapitalRates :
          SetDrawnRates(m, f, c, k)
    \/ \E m \in CommitmentFeeRates, f \in CommitmentFeeFundingRates,
          c \in CommitmentFeeCreditRates, k \in CommitmentFeeCapitalRates :
          SetUndrawnRates(m, f, c, k)
    \/ \E b \in BOOLEAN : SetIncludeCln(b)
    \/ \E v \in ClnCosts : SetClnCost(v)
    \/ \E m \in CompareModes : SetCompareMode(m)

Next ==
    \/ Widgets
    \/ \E v \in ClnAmounts(rcf_limit) : SetClnAmount(v)
    \/ Calculate

Spec == Init /\ [][Next]_vars

---------------------------------------------------------------------------
(* The calculation block taken as a function of its inputs: the CLN        *)
(* amount handed to it is any non-negative amount, also one above the      *)
(* facility limit, which the sidebar widget's max_value never delivers.    *)

MaxClnExcess == 1

ClnAmountsAboveLimit(limit) == {RAdd(limit, R(k * 500)) : k \in 1..MaxClnExcess}

SetClnAmountUncapped(v) ==
    /\ include_cln
    /\ ~RLt(v, Zero)
    /\ cln_amount' = v
    /\ UNCHANGED <<cln_cost_bps, compare_mode>>
    /\ ClnWidgetsFrame
    /\ NoCalcRun

NextCore ==
    \/ Widgets
    \/ \E v \in ClnAmounts(rcf_limit) \cup ClnAmountsAboveLimit(rcf_limit) :
          SetClnAmountUncapped(v)
    \/ Calculate

SpecCore == Init /\ [][NextCore]_vars

---------------------------------------------------------------------------
(* Two calculations side by side: the runs of the script with the          *)
(* calculation last on the page remembered, over the capital cost and the  *)
(* CLN inputs, the other inputs at their defaults.                         *)

InitPairs == InitRun /\ previous = [tracking |-> TRUE, calc |-> << >>]

NextPairs ==
    \/ \E v \in CapCosts : SetCapCost(v)
    \/ \E b \in BOOLEAN : SetIncludeCln(b)
    \/ \E v \in ClnAmounts(rcf_limit) \cup ClnAmountsAboveLimit(rcf_limit) :
          SetClnAmountUncapped(v)
    \/ \E v \in ClnCosts : SetClnCost(v)
    \/ \E m \in CompareModes : SetCompareMode(m)
    \/ Calculate

SpecPairs == InitPairs /\ [][NextPairs]_vars

---------------------------------------------------------------------------
(* Properties.  They read the tables on the page: table 1, when there is   *)
(* one, is the stand-alone No-CLN table; a CLN scenario table is one       *)
(* emitted under "CLN Scenario Results" or "CLN Scenario"; the comparison  *)
(* table is the one under "CLN Comparison Analysis".                       *)

NoClnShown == emitted[1].rows

ClnScenarioTables ==
    {i \in DOMAIN emitted : emitted[i].subheader \in {"CLN Scenario Results", "CLN Scenario"}}

ComparisonTables ==
    {i \in DOMAIN emitted : emitted[i].subheader = "CLN Comparison Analysis"}

ClnShown == ClnScenarioTables # {}
ComparisonShown == ComparisonTables # {}

\* The share of the facility the CLN covers, from the inputs alone.
CoveredShare == RDiv(RMin(cln_amount, rcf_limit), rcf_limit)

\* C1: in both scenarios, a blended capital bps of exactly 0 gives a ROC of
\* exactly 0, in every table that shows the scenario, and the run that
\* computed it ended without an exception.
C1_RocZeroWhenCapitalZero ==
    calc_btn =>
        /\ NoClnShown[20].BPS = Num(Zero) =>
              NoClnShown[22].BPS = Num(Zero) /\ error = "none"
        /\ \A i \in ClnScenarioTables :
              emitted[i].rows[23].BPS = Num(Zero) =>
                 emitted[i].rows[25].BPS = Num(Zero) /\ error = "none"
        /\ \A i \in ComparisonTables :
              /\ emitted[i].rows[22].NO_CLN_bps = Num(Zero) =>
                    emitted[i].rows[25].NO_CLN_bps = Pct2(Zero)
              /\ emitted[i].rows[22].CLN_bps = Num(Zero) =>
                    emitted[i].rows[25].CLN_bps = Pct2(Zero) /\ error = "none"

\* C1 witness: a CLN table whose blended capital is 0 (the CLN covers the
\* whole facility) although the capital rates are not, with a non-zero net
\* revenue and capital cost rate, and a ROC of 0.
C1_Witness ==
    /\ ClnShown
    /\ ~IsZero(capital_bps) /\ ~IsZero(commitment_fee_capital_bps) /\ ~IsZero(cap_cost)
    /\ \E i \in ClnScenarioTables :
          /\ emitted[i].rows[23].BPS = Num(Zero)
          /\ emitted[i].rows[24].BPS # Num(Zero)
          /\ emitted[i].rows[25].BPS = Num(Zero)

C3_ClnAmountClamped ==
    /\ \A i \in ClnScenarioTables :
          /\ emitted[i].rows[2].ZAR = Num(RMin(cln_amount, rcf_limit))
          /\ ~RLt(rcf_limit, emitted[i].rows[2].ZAR.v)
          /\ emitted[i].rows[2].BPS = Pct0(CoveredShare)
          /\ emitted[i].rows[16].ZAR =
                Num(RMul(RMin(cln_amount, rcf_limit), RDiv(cln_cost_bps, R(10000))))
          /\ emitted[i].rows[21].BPS = Num(RMul(cln_cost_bps, CoveredShare))
    /\ \A i \in ComparisonTables :
          /\ emitted[i].rows[31].CLN_ZAR = Num(RMin(cln_amount, rcf_limit))
          /\ ~RLt(rcf_limit, emitted[i].rows[31].CLN_ZAR.v)
          /\ emitted[i].rows[31].CLN_bps = Pct0(CoveredShare)
          /\ emitted[i].rows[15].CLN_ZAR =
                Num(RMul(RMin(cln_amount, rcf_limit), RDiv(cln_cost_bps, R(10000))))
          /\ emitted[i].cln_column = RoundHalfEven(RMin(cln_amount, rcf_limit))
    /\ (calc_btn /\ include_cln /\ RLt(Zero, cln_amount)) =>
          (Len(emitted) > 1 <=> ~IsZero(rcf_limit))

\* C3 witness: a CLN amount above a positive limit, and the CLN table
\* showing the limit as the CLN amount, at 100%.
C3_Witness ==
    /\ RLt(rcf_limit, cln_amount) /\ RLt(Zero, rcf_limit)
    /\ \E i \in ClnScenarioTables :
          /\ emitted[i].rows[2].ZAR = Num(rcf_limit)
          /\ emitted[i].rows[2].BPS.v = R(100)

\* C4: CLN scenario rows and comparison rows are emitted only when
\* include_cln holds and cln_amount > 0; without include_cln the amount and
\* the cost are 0 and the mode is ShowClnOnly; in every other calculation
\* the page holds the No-CLN table alone, whatever the display mode.
C4_ClnOnlyWhenRequested ==
    /\ ~include_cln =>
          IsZero(cln_amount) /\ IsZero(cln_cost_bps) /\ compare_mode = ShowClnOnly
    /\ Len(emitted) > 1 => include_cln /\ RLt(Zero, cln_amount)
    /\ (calc_btn /\ ~(include_cln /\ RLt(Zero, cln_amount))) =>
          /\ Len(emitted) = 1
          /\ emitted[1].subheader = "NO CLN Output Table"
          /\ ~ClnShown /\ ~ComparisonShown

\* C4 witness: a calculation with include_cln, a CLN amount of 0 and the
\* single comparison table chosen, that emitted the No-CLN table alone.
C4_Witness ==
    /\ calc_btn /\ include_cln /\ IsZero(cln_amount)
    /\ compare_mode = SingleComparisonTable
    /\ Len(emitted) = 1

\* A rate scaled by the share of the facility the CLN leaves uncovered, and
\* the ZAR amount of a leg: the portion amount times the rate / 10000.
Uncovered(rate) == RMul(rate, RSub(One, CoveredShare))
LegAmount(amount, rate) == RMul(amount, RDiv(rate, R(10000)))
Drawn == RMul(rcf_limit, drawn_percentage)
Undrawn == RMul(rcf_limit, RSub(One, drawn_percentage))

\* C5: in the CLN scenario the drawn credit and capital rates and the
\* undrawn commitment-fee credit and capital rates are the No-CLN rates times
\* (1 - cln_percentage), their ZAR amounts the portion amount times the
\* scaled rate / 10000; with cln_percentage = 1 all four are 0 in bps and ZAR.
C5_CreditRiskLegsScaled ==
    /\ \A i \in ClnScenarioTables :
          LET t == emitted[i].rows IN
          /\ t[6].BPS = Num(Uncovered(credit_bps))
          /\ t[6].ZAR = Num(LegAmount(Drawn, Uncovered(credit_bps)))
          /\ t[7].BPS = Num(Uncovered(capital_bps))
          /\ t[7].ZAR = Num(LegAmount(Drawn, Uncovered(capital_bps)))
          /\ t[12].BPS = Num(Uncovered(commitment_fee_credit_bps))
          /\ t[12].ZAR = Num(LegAmount(Undrawn, Uncovered(commitment_fee_credit_bps)))
          /\ t[13].BPS = Num(Uncovered(commitment_fee_capital_bps))
          /\ t[13].ZAR = Num(LegAmount(Undrawn, Uncovered(commitment_fee_capital_bps)))
          /\ CoveredShare = One =>
                \A r \in {6, 7, 12, 13} : t[r].BPS = Num(Zero) /\ t[r].ZAR = Num(Zero)
    /\ \A i \in ComparisonTables :
          LET t == emitted[i].rows IN
          /\ t[5].CLN_bps = Num(Uncovered(credit_bps))
          /\ t[5].CLN_ZAR = Num(LegAmount(Drawn, Uncovered(credit_bps)))
          /\ t[6].CLN_bps = Num(Uncovered(capital_bps))
          /\ t[6].CLN_ZAR = Num(LegAmount(Drawn, Uncovered(capital_bps)))
          /\ t[11].CLN_bps = Num(Uncovered(commitment_fee_credit_bps))
          /\ t[11].CLN_ZAR = Num(LegAmount(Undrawn, Uncovered(commitment_fee_credit_bps)))
          /\ t[12].CLN_bps = Num(Uncovered(commitment_fee_capital_bps))
          /\ t[12].CLN_ZAR = Num(LegAmount(Undrawn, Uncovered(commitment_fee_capital_bps)))
          /\ CoveredShare = One =>
                \A r \in {5, 6, 11, 12} : t[r].CLN_bps = Num(Zero) /\ t[r].CLN_ZAR = Num(Zero)

\* C5 witness: a CLN table for a CLN that covers the whole facility, with
\* non-zero credit and capital rates on a partly drawn facility, whose four
\* scaled legs are 0.
C5_Witness ==
    /\ ~IsZero(credit_bps) /\ ~IsZero(capital_bps)
    /\ ~IsZero(commitment_fee_credit_bps) /\ ~IsZero(commitment_fee_capital_bps)
    /\ drawn_percentage = Q(7, 20)
    /\ cln_amount = rcf_limit
    /\ \E i \in ClnScenarioTables :
          \A r \in {6, 7, 12, 13} :
             emitted[i].rows[r].BPS = Num(Zero) /\ emitted[i].rows[r].ZAR = Num(Zero)

\* C6: in the CLN scenario the margin, funding, commitment-fee and
\* commitment-fee-funding legs have the bps and ZAR values of the No-CLN
\* scenario, and their differentials in the comparison table are 0.
C6_PassThroughLegs ==
    /\ \A i \in ClnScenarioTables :
          LET t == emitted[i].rows IN
          /\ t[3].ZAR = NoClnShown[2].ZAR /\ t[3].BPS = NoClnShown[2].BPS
          /\ t[5].ZAR = NoClnShown[4].ZAR /\ t[5].BPS = NoClnShown[4].BPS
          /\ t[10].ZAR = NoClnShown[9].ZAR /\ t[10].BPS = NoClnShown[9].BPS
          /\ t[11].ZAR = NoClnShown[10].ZAR /\ t[11].BPS = NoClnShown[10].BPS
    /\ \A i \in ComparisonTables :
          \A r \in {2, 4, 9, 10} :
             LET c == emitted[i].rows[r] IN
             /\ c.NO_CLN_ZAR = NoClnShown[r].ZAR /\ c.NO_CLN_bps = NoClnShown[r].BPS
             /\ c.CLN_ZAR = NoClnShown[r].ZAR /\ c.CLN_bps = NoClnShown[r].BPS
             /\ c.Differential = Num(Zero) /\ c.bps = Num(Zero)

\* C6 witness: a comparison table for a CLN that covers part of the facility
\* at a non-zero cost, whose funding row is non-zero with a 0 differential
\* while its credit row has a non-zero differential.
C6_Witness ==
    /\ RLt(Zero, cln_amount) /\ RLt(cln_amount, rcf_limit) /\ ~IsZero(cln_cost_bps)
    /\ \E i \in ComparisonTables :
          /\ emitted[i].rows[4].CLN_ZAR # Num(Zero)
          /\ emitted[i].rows[4].Differential = Num(Zero)
          /\ emitted[i].rows[4].bps = Num(Zero)
          /\ emitted[i].rows[5].bps # Num(Zero)

C8_NetSpreadBpsTimesDrawn ==
    calc_btn =>
        NoClnShown[7].BPS =
           Num(RMul(RAdd(NoClnShown[2].BPS.v, NoClnShown[3].BPS.v), drawn_percentage))

\* C9: a calculation in the ShowClnOnly mode that computes the CLN scenario
\* emits the CLN table and no No-CLN table.
C9_ShowClnOnlyEmitsClnAlone ==
    (calc_btn /\ include_cln /\ RLt(Zero, cln_amount) /\ ~IsZero(rcf_limit)
     /\ compare_mode = ShowClnOnly) =>
        /\ ClnShown
        /\ \A i \in DOMAIN emitted : emitted[i].subheader = "CLN Scenario Results"

\* The line items of the comparison table present in both scenarios:
\* <<row of the comparison table, row of rows, row of cln_rows>>.
MatchedLineItems ==
    { <<2, 2, 3>>, <<3, 3, 4>>, <<4, 4, 5>>, <<5, 5, 6>>, <<6, 6, 7>>, <<7, 7, 8>>,
      <<9, 9, 10>>, <<10, 10, 11>>, <<11, 11, 12>>, <<12, 12, 13>>, <<13, 13, 14>>,
      <<18, 16, 19>>, <<19, 17, 20>>, <<21, 19, 22>>, <<22, 20, 23>>, <<23, 21, 24>> }

\* Facility Amount, Drawn, Undrawn, likewise.
MatchedFacilityRows == { <<27, 24, 27>>, <<28, 25, 28>>, <<29, 26, 29>> }

\* The two sides of comparison row m[1] are line item m[2] of the No-CLN
\* table on the page and line item m[3] of the CLN scenario.
SidesMatch(c, m) ==
    /\ c.NO_CLN_ZAR = NoClnShown[m[2]].ZAR /\ c.NO_CLN_bps = NoClnShown[m[2]].BPS
    /\ c.CLN_ZAR = cln_rows[m[3]].ZAR /\ c.CLN_bps = cln_rows[m[3]].BPS

\* C10 as stated: every matched row of the comparison table, Facility
\* Amount, Drawn and Undrawn included, carries cln - no_cln in both
\* differential cells.
C10_EveryMatchedRowDifferential ==
    \A i \in ComparisonTables :
       \A m \in MatchedLineItems \cup MatchedFacilityRows :
          LET c == emitted[i].rows[m[1]] IN
          /\ c.Differential = Num(RSub(c.CLN_ZAR.v, c.NO_CLN_ZAR.v))
          /\ c.bps = Num(RSub(c.CLN_bps.v, c.NO_CLN_bps.v))

\* C10 amended: every numeric line item present in both scenarios has
\* differential_zar = cln_zar - no_cln_zar and differential_bps = cln_bps -
\* no_cln_bps, its two sides being that line item of the two scenarios; the
\* Facility Amount, Drawn and Undrawn rows carry that row of the two
\* scenarios on their sides and blank differential cells.
C10_LineItemDifferentials ==
    \A i \in ComparisonTables :
       /\ \A m \in MatchedLineItems :
             LET c == emitted[i].rows[m[1]] IN
             /\ SidesMatch(c, m)
             /\ c.Differential = Num(RSub(cln_rows[m[3]].ZAR.v, NoClnShown[m[2]].ZAR.v))
             /\ c.bps = Num(RSub(cln_rows[m[3]].BPS.v, NoClnShown[m[2]].BPS.v))
       /\ \A m \in MatchedFacilityRows :
             LET c == emitted[i].rows[m[1]] IN
             /\ SidesMatch(c, m)
             /\ c.Differential = Blank /\ c.bps = Blank

\* C10 witness: a comparison table whose drawn and undrawn Funding rows
\* differ, with non-zero differentials on the drawn Credit row and a blank
\* differential on the Facility Amount row.
C10_Witness ==
    \E i \in ComparisonTables :
       LET t == emitted[i].rows IN
       /\ t[4].NO_CLN_ZAR # t[10].NO_CLN_ZAR
       /\ t[5].Differential.k = "num" /\ RLt(Zero, t[5].Differential.v)
       /\ t[5].bps.k = "num" /\ RLt(Zero, t[5].bps.v)
       /\ t[27].Differential = Blank

\* C11: in the ROC row of the single comparison table, a CLN ROC above 999
\* puts the warning sentinel in the CLN-side cell and in the differential
\* cell; otherwise the CLN-side cell is the CLN ROC and the differential
\* cell the CLN ROC minus the No-CLN ROC, both written as percentages.
C11_RocRowWarning ==
    \A i \in ComparisonTables :
       LET r == emitted[i].rows[25]
           roc == NoClnShown[22].BPS.v
           c_roc == cln_rows[25].BPS.v
       IN  /\ r.Item = Plain("ROC")
           /\ IF RLt(R(999), c_roc)
              THEN r.CLN_bps = Warn /\ r.bps = Warn
              ELSE r.CLN_bps = Pct2(c_roc) /\ r.bps = Pct2(RSub(c_roc, roc))

\* C11 witness: a comparison table whose ROC row warns on the CLN side and
\* in the differential while the No-CLN side shows a percentage.
C11_Witness ==
    \E i \in ComparisonTables :
       /\ emitted[i].rows[25].CLN_bps = Warn
       /\ emitted[i].rows[25].bps = Warn
       /\ emitted[i].rows[25].NO_CLN_bps.k = "pct2"
       /\ RLt(Zero, emitted[i].rows[25].NO_CLN_bps.v)

\* C12 as stated: in the single comparison table the two CLN Cost rows and
\* the CLN Note row carry the sentinel "-" in both No-CLN cells.
C12_ClnOnlyRowsAllDashed ==
    \A i \in ComparisonTables :
       \A r \in {15, 20, 31} :
          /\ emitted[i].rows[r].NO_CLN_ZAR = Dash
          /\ emitted[i].rows[r].NO_CLN_bps = Dash

\* C12 amended: the two CLN Cost rows carry "-" in both No-CLN cells; the
\* CLN Note row carries "-" in its No-CLN ZAR cell and the percentage "0%"
\* in its No-CLN bps cell.
C12_ClnOnlyRowsSentinels ==
    \A i \in ComparisonTables :
       LET t == emitted[i].rows IN
       /\ \A r \in {15, 20} :
             /\ t[r].Item = Plain("CLN Cost")
             /\ t[r].NO_CLN_ZAR = Dash /\ t[r].NO_CLN_bps = Dash
       /\ t[31].Item = Plain("CLN Note")
       /\ t[31].NO_CLN_ZAR = Dash
       /\ t[31].NO_CLN_bps = Pct0(Zero)

\* C12 witness: a comparison table with a non-zero CLN cost next to the
\* "-" cells, and a CLN Note row showing "0%" against a non-zero CLN share.
C12_Witness ==
    \E i \in ComparisonTables :
       LET t == emitted[i].rows IN
       /\ t[15].NO_CLN_ZAR = Dash /\ t[15].CLN_ZAR # Num(Zero)
       /\ t[20].NO_CLN_bps = Dash /\ t[20].CLN_bps # Num(Zero)
       /\ t[31].NO_CLN_bps.k = "pct0" /\ t[31].CLN_bps.k = "pct0"
       /\ t[31].NO_CLN_bps # t[31].CLN_bps

\* The blended cells of a leg, from the drawn and the undrawn cell of it.
BlendedZar(d, u) == Num(RAdd(d.v, u.v))
BlendedBps(d, u) ==
    Num(RAdd(RMul(d.v, drawn_percentage), RMul(u.v, RSub(One, drawn_percentage))))

\* The margin, funding, credit and capital legs as <<blended row, drawn
\* row, undrawn row>> of rows, of cln_rows and of comparison_rows.
NoClnLegs == { <<16, 2, 9>>, <<17, 4, 10>>, <<19, 5, 11>>, <<20, 6, 12>> }
ClnLegs == { <<19, 3, 10>>, <<20, 5, 11>>, <<22, 6, 12>>, <<23, 7, 13>> }
ComparisonLegs == { <<18, 2, 9>>, <<19, 4, 10>>, <<21, 5, 11>>, <<22, 6, 12>> }

\* C13: for the margin, funding, credit and capital legs of both scenarios,
\* blended ZAR = drawn ZAR + undrawn ZAR and blended bps = drawn bps *
\* drawn_percentage + undrawn bps * (1 - drawn_percentage), the CLN scenario
\* on its scaled credit and capital rates.
C13_BlendedLegs ==
    /\ calc_btn =>
          \A l \in NoClnLegs :
             /\ NoClnShown[l[1]].ZAR = BlendedZar(NoClnShown[l[2]].ZAR, NoClnShown[l[3]].ZAR)
             /\ NoClnShown[l[1]].BPS = BlendedBps(NoClnShown[l[2]].BPS, NoClnShown[l[3]].BPS)
    /\ \A i \in ClnScenarioTables :
          LET t == emitted[i].rows IN
          /\ \A l \in ClnLegs :
                /\ t[l[1]].ZAR = BlendedZar(t[l[2]].ZAR, t[l[3]].ZAR)
                /\ t[l[1]].BPS = BlendedBps(t[l[2]].BPS, t[l[3]].BPS)
          /\ t[6].BPS = Num(Uncovered(credit_bps))
          /\ t[7].BPS = Num(Uncovered(capital_bps))
    /\ \A i \in ComparisonTables :
          LET t == emitted[i].rows IN
          \A l \in ComparisonLegs :
             /\ t[l[1]].NO_CLN_ZAR = BlendedZar(t[l[2]].NO_CLN_ZAR, t[l[3]].NO_CLN_ZAR)
             /\ t[l[1]].NO_CLN_bps = BlendedBps(t[l[2]].NO_CLN_bps, t[l[3]].NO_CLN_bps)
             /\ t[l[1]].CLN_ZAR = BlendedZar(t[l[2]].CLN_ZAR, t[l[3]].CLN_ZAR)
             /\ t[l[1]].CLN_bps = BlendedBps(t[l[2]].CLN_bps, t[l[3]].CLN_bps)

\* C13 witness: a facility drawn at 35% with a CLN on part of it, whose CLN
\* table has a blended credit rate that is neither 0, nor the No-CLN one,
\* nor the plain sum of the scaled drawn and undrawn credit rates.
C13_Witness ==
    /\ calc_btn /\ drawn_percentage = Q(7, 20)
    /\ \E i \in ClnScenarioTables :
          LET t == emitted[i].rows IN
          /\ t[22].BPS # Num(Zero)
          /\ t[22].BPS # NoClnShown[19].BPS
          /\ t[22].BPS # Num(RAdd(t[6].BPS.v, t[12].BPS.v))
          /\ t[22].ZAR # Num(Zero)

\* The sum of five cells' values, as a numeric cell.
Sum5(a, b, c, d, e) == Num(RAdd(RAdd(RAdd(RAdd(a.v, b.v), c.v), d.v), e.v))

\* C14: in both scenarios the net revenue, in ZAR and in bps, is the sum of
\* the blended margin, funding, CLN cost, credit and capital legs; the CLN
\* cost leg is 0 ZAR and 0 bps in the No-CLN scenario and the CLN-specific
\* cost in the CLN scenario.
C14_NetRevenueIsSumOfLegs ==
    /\ calc_btn =>
          LET t == NoClnShown IN
          /\ t[21].ZAR = Sum5(t[16].ZAR, t[17].ZAR, t[18].ZAR, t[19].ZAR, t[20].ZAR)
          /\ t[21].BPS = Sum5(t[16].BPS, t[17].BPS, t[18].BPS, t[19].BPS, t[20].BPS)
          /\ t[18].ZAR = Num(Zero) /\ t[18].BPS = Num(Zero)
    /\ \A i \in ClnScenarioTables :
          LET t == emitted[i].rows IN
          /\ t[24].ZAR = Sum5(t[19].ZAR, t[20].ZAR, t[21].ZAR, t[22].ZAR, t[23].ZAR)
          /\ t[24].BPS = Sum5(t[19].BPS, t[20].BPS, t[21].BPS, t[22].BPS, t[23].BPS)
          /\ t[21].ZAR = t[16].ZAR
          /\ t[21].ZAR = Num(LegAmount(RMin(cln_amount, rcf_limit), cln_cost_bps))
    /\ \A i \in ComparisonTables :
          LET t == emitted[i].rows IN
          /\ t[23].NO_CLN_ZAR = Sum5(t[18].NO_CLN_ZAR, t[19].NO_CLN_ZAR, Num(Zero),
                                     t[21].NO_CLN_ZAR, t[22].NO_CLN_ZAR)
          /\ t[23].NO_CLN_bps = Sum5(t[18].NO_CLN_bps, t[19].NO_CLN_bps, Num(Zero),
                                     t[21].NO_CLN_bps, t[22].NO_CLN_bps)
          /\ t[23].CLN_ZAR = Sum5(t[18].CLN_ZAR, t[19].CLN_ZAR, t[20].CLN_ZAR,
                                  t[21].CLN_ZAR, t[22].CLN_ZAR)
          /\ t[23].CLN_bps = Sum5(t[18].CLN_bps, t[19].CLN_bps, t[20].CLN_bps,
                                  t[21].CLN_bps, t[22].CLN_bps)
          /\ t[20].CLN_ZAR = t[15].CLN_ZAR

\* C14 witness: a CLN table with five non-zero blended legs, next to a
\* No-CLN table with a different net revenue.
C14_Witness ==
    /\ calc_btn
    /\ \E i \in ClnScenarioTables :
          LET t == emitted[i].rows IN
          /\ \A r \in 19..23 : t[r].ZAR # Num(Zero) /\ t[r].BPS # Num(Zero)
          /\ t[24].ZAR # NoClnShown[21].ZAR
          /\ t[24].BPS # NoClnShown[21].BPS

\* (margin + funding + CLN cost + credit) / (-capital) * cap_cost, on the
\* blended bps cells of a scenario.
RocOf(m, f, c, cr, cap) ==
    RMul(RDiv(RAdd(RAdd(RAdd(m.v, f.v), c.v), cr.v), RNeg(cap.v)), cap_cost)

\* C15: whenever the blended capital bps of a scenario is not 0, its ROC is
\* (blended margin + funding + CLN cost + credit bps) / (-blended capital
\* bps) * cap_cost, the CLN scenario on its own blended legs and CLN cost.
C15_RocFormula ==
    /\ (calc_btn /\ NoClnShown[20].BPS # Num(Zero)) =>
          LET t == NoClnShown IN
          t[22].BPS = Num(RocOf(t[16].BPS, t[17].BPS, t[18].BPS, t[19].BPS, t[20].BPS))
    /\ \A i \in ClnScenarioTables :
          LET t == emitted[i].rows IN
          t[23].BPS # Num(Zero) =>
             t[25].BPS = Num(RocOf(t[19].BPS, t[20].BPS, t[21].BPS, t[22].BPS, t[23].BPS))
    /\ \A i \in ComparisonTables :
          LET t == emitted[i].rows IN
          /\ t[22].NO_CLN_bps # Num(Zero) =>
                t[25].NO_CLN_bps =
                   Pct2(RocOf(t[18].NO_CLN_bps, t[19].NO_CLN_bps, Num(Zero),
                              t[21].NO_CLN_bps, t[22].NO_CLN_bps))
          /\ t[22].CLN_bps # Num(Zero) =>
                LET c_roc == RocOf(t[18].CLN_bps, t[19].CLN_bps, t[20].CLN_bps,
                                   t[21].CLN_bps, t[22].CLN_bps)
                IN  t[25].CLN_bps = IF RLt(R(999), c_roc) THEN Warn ELSE Pct2(c_roc)

\* C15 witness: a No-CLN and a CLN table with non-zero blended capital and
\* capital cost rates, whose ROCs are positive and differ.
C15_Witness ==
    /\ calc_btn /\ ~IsZero(cap_cost)
    /\ NoClnShown[20].BPS # Num(Zero)
    /\ RLt(Zero, NoClnShown[22].BPS.v)
    /\ \E i \in ClnScenarioTables :
          /\ emitted[i].rows[23].BPS # Num(Zero)
          /\ RLt(Zero, emitted[i].rows[25].BPS.v)
          /\ emitted[i].rows[25].BPS # NoClnShown[22].BPS

\* C16: the CLN-specific cost is the clamped cln_amount * cln_cost_bps /
\* 10000 at the rate cln_cost_bps; its blended-view contribution is the
\* same ZAR amount at cln_cost_bps * cln_percentage bps.
C16_ClnSpecificCost ==
    /\ \A i \in ClnScenarioTables :
          LET t == emitted[i].rows IN
          /\ t[16].ZAR = Num(LegAmount(RMin(cln_amount, rcf_limit), cln_cost_bps))
          /\ t[16].BPS = Num(cln_cost_bps)
          /\ t[21].ZAR = t[16].ZAR
          /\ t[21].BPS = Num(RMul(cln_cost_bps, CoveredShare))
    /\ \A i \in ComparisonTables :
          LET t == emitted[i].rows IN
          /\ t[15].CLN_ZAR = Num(LegAmount(RMin(cln_amount, rcf_limit), cln_cost_bps))
          /\ t[15].CLN_bps = Num(cln_cost_bps)
          /\ t[20].CLN_ZAR = t[15].CLN_ZAR
          /\ t[20].CLN_bps = Num(RMul(cln_cost_bps, CoveredShare))

\* C16 witness: a CLN on part of the facility, whose cost shows the same
\* non-zero ZAR amount in the CLN Cost row and in the blended view, at a
\* smaller rate in the blended view.
C16_Witness ==
    /\ RLt(Zero, cln_amount) /\ RLt(cln_amount, rcf_limit) /\ RLt(Zero, cln_cost_bps)
    /\ \E i \in ClnScenarioTables :
          LET t == emitted[i].rows IN
          /\ t[16].ZAR # Num(Zero)
          /\ t[21].ZAR = t[16].ZAR
          /\ RLt(t[21].BPS.v, t[16].BPS.v)
          /\ RLt(Zero, t[21].BPS.v)

\* The sums of three and of four cells' values, as numeric cells.
Sum3(a, b, c) == Num(RAdd(RAdd(a.v, b.v), c.v))
Sum4(a, b, c, d) == Num(RAdd(RAdd(RAdd(a.v, b.v), c.v), d.v))

CreditRiskLegs == { <<5, 6>>, <<6, 7>>, <<11, 12>>, <<12, 13>> }

\* C18 as stated: a calculation with cln_amount = 0 or without include_cln
\* has a CLN scenario whose credit and capital legs, drawn and undrawn, bps
\* and ZAR, equal the No-CLN legs.
C18_ZeroClnScenarioEqualsNoCln ==
    (calc_btn /\ error = "none" /\ (IsZero(cln_amount) \/ ~include_cln)) =>
        \E i \in ClnScenarioTables :
           \A l \in CreditRiskLegs :
              /\ emitted[i].rows[l[2]].BPS = NoClnShown[l[1]].BPS
              /\ emitted[i].rows[l[2]].ZAR = NoClnShown[l[1]].ZAR

\* C18 amended: a calculation with cln_amount = 0 or without include_cln
\* computes no CLN scenario; the credit and capital legs it emits are the
\* No-CLN legs, at the unscaled rates.
C18_ZeroClnLeavesNoClnLegs ==
    (calc_btn /\ (IsZero(cln_amount) \/ ~include_cln)) =>
        /\ error = "none"
        /\ ~ClnShown /\ ~ComparisonShown
        /\ NoClnShown[5].BPS = Num(credit_bps)
        /\ NoClnShown[5].ZAR = Num(LegAmount(Drawn, credit_bps))
        /\ NoClnShown[6].BPS = Num(capital_bps)
        /\ NoClnShown[6].ZAR = Num(LegAmount(Drawn, capital_bps))
        /\ NoClnShown[11].BPS = Num(commitment_fee_credit_bps)
        /\ NoClnShown[11].ZAR = Num(LegAmount(Undrawn, commitment_fee_credit_bps))
        /\ NoClnShown[12].BPS = Num(commitment_fee_capital_bps)
        /\ NoClnShown[12].ZAR = Num(LegAmount(Undrawn, commitment_fee_capital_bps))

\* C18 witness: a side-by-side calculation with include_cln and a CLN
\* amount of 0 on a partly drawn facility with non-zero credit and capital
\* legs.
C18_Witness ==
    /\ calc_btn /\ include_cln /\ IsZero(cln_amount) /\ ~IsZero(rcf_limit)
    /\ compare_mode = CompareSideBySide
    /\ drawn_percentage = Q(7, 20)
    /\ \A r \in {5, 6, 11, 12} : NoClnShown[r].ZAR # Num(Zero)
    /\ Len(emitted) = 1

\* x lies in [0, rcf_limit].
WithinFacility(x) == ~RLt(x, Zero) /\ ~RLt(rcf_limit, x)

\* The Facility Amount, Drawn and Undrawn cells f, d, u split the facility:
\* d = rcf_limit * drawn_percentage, u = rcf_limit * (1 - drawn_percentage),
\* d + u = f = rcf_limit, and d and u lie in [0, rcf_limit].
SplitsFacility(f, d, u) ==
    /\ f = Num(rcf_limit)
    /\ d = Num(RMul(rcf_limit, drawn_percentage))
    /\ u = Num(RMul(rcf_limit, RSub(One, drawn_percentage)))
    /\ RAdd(d.v, u.v) = f.v
    /\ WithinFacility(d.v) /\ WithinFacility(u.v)

\* C19: for every rcf_limit >= 0 and drawn_percentage in [0, 1], the drawn
\* amount is rcf_limit * drawn_percentage, the undrawn amount rcf_limit *
\* (1 - drawn_percentage), their sum rcf_limit, and both lie in
\* [0, rcf_limit], in every table that shows them.
C19_DrawnPlusUndrawn ==
    /\ ~RLt(rcf_limit, Zero) /\ ~RLt(drawn_percentage, Zero) /\ ~RLt(One, drawn_percentage)
    /\ calc_btn =>
          SplitsFacility(NoClnShown[24].ZAR, NoClnShown[25].ZAR, NoClnShown[26].ZAR)
    /\ \A i \in ClnScenarioTables :
          LET t == emitted[i].rows IN SplitsFacility(t[27].ZAR, t[28].ZAR, t[29].ZAR)
    /\ \A i \in ComparisonTables :
          LET t == emitted[i].rows IN
          /\ SplitsFacility(t[27].NO_CLN_ZAR, t[28].NO_CLN_ZAR, t[29].NO_CLN_ZAR)
          /\ SplitsFacility(t[27].CLN_ZAR, t[28].CLN_ZAR, t[29].CLN_ZAR)

\* C19 witness: a calculation on a facility drawn at 35%, showing a drawn
\* and a larger undrawn amount, both positive.
C19_Witness ==
    /\ calc_btn /\ drawn_percentage = Q(7, 20)
    /\ RLt(Zero, NoClnShown[25].ZAR.v)
    /\ RLt(NoClnShown[25].ZAR.v, NoClnShown[26].ZAR.v)
    /\ NoClnShown[25].BPS.v = R(35) /\ NoClnShown[26].BPS.v = R(65)

\* The line item a row shows: its label without the indentation of the
\* blended-view rows; the first row of a table is its header.
LineItem(t, r) ==
    IF r = 1 THEN "header"
    ELSE CASE t[r].Item.text = "  Margin" -> "Margin"
           [] t[r].Item.text = "  Funding" -> "Funding"
           [] t[r].Item.text = "  CLN Cost" -> "CLN Cost"
           [] t[r].Item.text = "  Credit" -> "Credit"
           [] t[r].Item.text = "  Capital" -> "Capital"
           [] OTHER -> t[r].Item.text

\* The fixed order of a scenario's line items.
ScenarioOrder ==
    << "header", "Margin", "Total Cost", "Funding", "Credit", "Capital", "Net Spread", "",
       "Commitment Fee", "Funding", "Credit Cost", "Capital Cost", "Net Spread", "",
       "Blended View", "Margin", "Funding", "CLN Cost", "Credit", "Capital",
       "Net Revenue", "ROC (bps)", "",
       "Facility Amount", "Drawn", "Undrawn" >>

\* The rows of a CLN scenario table that have a counterpart in the No-CLN
\* table, in the table's order: all but CLN Amount (row 2) and the CLN Cost
\* section with its separator (rows 16 and 17).
ClnSharedRows == << 1 >> \o [k \in 1..13 |-> k + 2] \o [k \in 1..12 |-> k + 17]

NoClnScenarioTables ==
    {i \in DOMAIN emitted : emitted[i].subheader \in {"NO CLN Output Table", "No CLN Scenario"}}

\* C20: every emitted scenario table lists its line items in the fixed
\* order, whatever the inputs: header, drawn breakdown and net spread,
\* blank, undrawn breakdown and net spread, blank, blended view (margin,
\* funding, CLN cost, credit, capital), net revenue, ROC, blank, Facility
\* Amount, Drawn, Undrawn; the CLN table has in addition CLN Amount after
\* the header and the CLN Cost section before the blended view.
C20_FixedRowOrder ==
    /\ \A i \in NoClnScenarioTables :
          LET t == emitted[i].rows IN
          /\ Len(t) = Len(ScenarioOrder)
          /\ \A r \in 1..Len(t) : LineItem(t, r) = ScenarioOrder[r]
    /\ \A i \in ClnScenarioTables :
          LET t == emitted[i].rows IN
          /\ Len(t) = Len(ScenarioOrder) + 3
          /\ \A k \in 1..Len(ScenarioOrder) :
                LineItem(t, ClnSharedRows[k]) = ScenarioOrder[k]
          /\ t[2].Item.text = "CLN Amount"
          /\ t[16].Item.text = "CLN Cost" /\ t[17].Item.text = ""

\* C20 witness: a side-by-side calculation, with a No-CLN and a CLN table
\* on the page after the stand-alone No-CLN table, for a facility that is
\* not at its default inputs.
C20_Witness ==
    /\ Len(emitted) = 3
    /\ Cardinality(NoClnScenarioTables) = 2 /\ Cardinality(ClnScenarioTables) = 1
    /\ drawn_percentage = One /\ IsZero(credit_bps) /\ cln_amount = rcf_limit

\* The rows of the comparison table that show a line item of the No-CLN
\* table, as <<row of the comparison table, row of rows>>: the numeric line
\* items, the facility rows, the header, Blended View and ROC.
ComparisonCounterparts ==
    { <<m[1], m[2]>> : m \in MatchedLineItems \cup MatchedFacilityRows }
       \cup { <<1, 1>>, <<17, 15>>, <<25, 22>> }

\* C21: a row that is a header (bold) in the No-CLN table is a header in
\* the CLN table's row for the same line item and in the corresponding row
\* of the single comparison table, and conversely.
C21_HeaderFlagPreserved ==
    /\ \A i \in ClnScenarioTables :
          \A k \in 1..Len(ScenarioOrder) :
             emitted[i].rows[ClnSharedRows[k]].Item.bold = NoClnShown[k].Item.bold
    /\ \A i \in ComparisonTables :
          \A m \in ComparisonCounterparts :
             emitted[i].rows[m[1]].Item.bold = NoClnShown[m[2]].Item.bold

---------------------------------------------------------------------------
(* How a table is rendered.  format_negatives turns a number into text     *)
(* with two decimals, in brackets when negative, and leaves strings alone; *)
(* the stand-alone No-CLN table applies it to its ZAR and BPS columns,     *)
(* display_table to every column whose name contains zar, bps or           *)
(* differential.  The rows lists themselves are not changed: each table is *)
(* rendered from a fresh DataFrame.                                        *)

format_negatives(val) ==
    IF val.k = "num"
    THEN LET neg == RLt(val.v, Zero)
             n == RoundHalfEven(RMul(IF neg THEN RNeg(val.v) ELSE val.v, R(100)))
         IN  [k |-> IF neg THEN "bracketed" ELSE "plain", v |-> Q(n, 100)]
    ELSE val

\* df["ZAR"].apply(format_negatives); df["BPS"].apply(format_negatives)
StandaloneRendering(table_rows) ==
    LET df == table_rows IN
    [r \in DOMAIN df |->
        [Item |-> df[r].Item,
         ZAR |-> format_negatives(df[r].ZAR),
         BPS |-> format_negatives(df[r].BPS)]]

display_table(table_rows) ==
    LET df == table_rows IN
    [r \in DOMAIN df |->
        [col \in DOMAIN df[r] |->
            IF col = "Item" THEN df[r][col] ELSE format_negatives(df[r][col])]]

\* The tables a calculation on the current inputs puts on the page.
Page ==
    IF ~ClnRequested \/ ClnPercentageRaises
    THEN << NoClnOutputTable >>
    ELSE << NoClnOutputTable >> \o ClnOutput

\* The calculation remembered: its inputs, its tables, its error.
Remembered == previous.calc # << >>
PreviousInputs == previous.calc[1]
PreviousPage == previous.calc[2]
PreviousError == previous.calc[3]

\* The positions of the inputs in the tuple inputs.
InputNames ==
    << "rcf_limit", "drawn_percentage", "cap_cost", "margin_bps", "funding_bps",
       "credit_bps", "capital_bps", "commitment_fee_bps", "commitment_fee_funding_bps",
       "commitment_fee_credit_bps", "commitment_fee_capital_bps",
       "include_cln", "cln_amount", "cln_cost_bps", "compare_mode" >>

\* The calculation on the page and the one remembered were both made, and
\* their inputs are the same but for the inputs named in among; differ
\* tells whether some input differs.
TwoCalculations(among, differ) ==
    /\ calc_btn /\ Remembered
    /\ \A k \in DOMAIN InputNames :
          InputNames[k] \notin among => PreviousInputs[k] = inputs[k]
    /\ differ <=> PreviousInputs # inputs

\* In the side-by-side tables on the page, the No-CLN rows are those of the
\* stand-alone No-CLN table above them, as values and as rendered.
SideBySideUnmodified ==
    (calc_btn /\ compare_mode = CompareSideBySide /\ Len(emitted) > 1) =>
        /\ Len(emitted) = 3
        /\ emitted[2].subheader = "No CLN Scenario"
        /\ emitted[3].subheader = "CLN Scenario"
        /\ emitted[2].rows = emitted[1].rows
        /\ display_table(emitted[2].rows) = StandaloneRendering(emitted[1].rows)

\* The CLN rows on the page in the side-by-side mode are those the
\* calculation on the same inputs emitted in the ShowClnOnly mode.
SideBySideClnAsShowClnOnly ==
    (TwoCalculations({"compare_mode"}, TRUE) /\ Len(emitted) = 3
     /\ compare_mode = CompareSideBySide /\ PreviousInputs[15] = ShowClnOnly) =>
        /\ Len(PreviousPage) = 2
        /\ PreviousPage[2].subheader = "CLN Scenario Results"
        /\ emitted[3].rows = PreviousPage[2].rows
        /\ display_table(emitted[3].rows) = display_table(PreviousPage[2].rows)
        /\ emitted[1] = PreviousPage[1]

\* C22: in the CompareSideBySide mode both scenarios are emitted
\* unmodified: the No-CLN rows beside the CLN rows are value for value the
\* rows of the stand-alone No-CLN table, and the CLN rows are value for
\* value those a ShowClnOnly calculation emits for the same inputs.
C22_SideBySideUnmodified ==
    SideBySideUnmodified /\ SideBySideClnAsShowClnOnly

\* C22 witness: a side-by-side calculation on the page after a ShowClnOnly
\* calculation on the same inputs, with negative funding and credit legs
\* and different net revenues in the two tables.
C22_Witness ==
    /\ TwoCalculations({"compare_mode"}, TRUE) /\ PreviousInputs[15] = ShowClnOnly
    /\ calc_btn /\ compare_mode = CompareSideBySide /\ Len(emitted) = 3
    /\ RLt(emitted[2].rows[4].ZAR.v, Zero) /\ RLt(emitted[3].rows[6].ZAR.v, Zero)
    /\ emitted[2].rows[21].ZAR # emitted[3].rows[24].ZAR
    /\ format_negatives(emitted[2].rows[4].ZAR).k = "bracketed"

\* The outcome of a calculation on the current inputs.
Outcome ==
    IF ClnRequested /\ ClnPercentageRaises THEN "ZeroDivisionError" ELSE "none"

\* C23: the calculation is a pure function of the current inputs: whatever
\* was calculated before, the tables on the page are those the current
\* inputs give, and two calculations with identical inputs emit identical
\* rows; nothing of the earlier calculation is carried over.
C23_PureFunctionOfInputs ==
    /\ calc_btn => emitted = Page /\ error = Outcome
    /\ TwoCalculations({}, FALSE) => emitted = PreviousPage /\ error = PreviousError

\* C23 witness: a CLN calculation on the page with the same inputs as the
\* calculation before it.
C23_Witness ==
    /\ TwoCalculations({}, FALSE)
    /\ Len(emitted) = 3
    /\ cap_cost # R(12) /\ cln_cost_bps # R(-70)

\* The cells that show a ROC: the bps cells of the ROC row of a table.
RocCell(row, col) ==
    /\ row.Item \in {Bold("ROC (bps)"), Plain("ROC")}
    /\ col \in {"BPS", "NO_CLN_bps", "CLN_bps", "bps"}

\* Two pages with the same tables, the same rows and the same value in
\* every cell that is not a ROC cell.
SameButRoc(p, q) ==
    /\ Len(p) = Len(q)
    /\ \A t \in DOMAIN p :
          /\ DOMAIN p[t] = DOMAIN q[t]
          /\ \A f \in DOMAIN p[t] \ {"rows"} : p[t][f] = q[t][f]
          /\ Len(p[t].rows) = Len(q[t].rows)
          /\ \A r \in DOMAIN p[t].rows :
                /\ DOMAIN p[t].rows[r] = DOMAIN q[t].rows[r]
                /\ \A col \in DOMAIN p[t].rows[r] :
                      p[t].rows[r][col] # q[t].rows[r][col]
                          => RocCell(p[t].rows[r], col) /\ RocCell(q[t].rows[r], col)

\* C24: cap_cost is used only in the ROC formula: two calculations whose
\* inputs differ only in cap_cost emit the same tables with identical values
\* in every cell except the ROC cells (No-CLN ROC, CLN ROC, ROC differential).
C24_CapCostOnlyInRoc ==
    TwoCalculations({"cap_cost"}, TRUE) =>
        /\ SameButRoc(emitted, PreviousPage)
        /\ error = PreviousError

\* C24 witness: two comparison tables from inputs that differ in cap_cost
\* only, whose No-CLN ROC, CLN ROC and ROC differential cells all differ.
C24_Witness ==
    /\ TwoCalculations({"cap_cost"}, TRUE)
    /\ compare_mode = SingleComparisonTable /\ Len(emitted) = 2
    /\ emitted[1].rows[22].BPS # PreviousPage[1].rows[22].BPS
    /\ emitted[2].rows[25].NO_CLN_bps # PreviousPage[2].rows[25].NO_CLN_bps
    /\ emitted[2].rows[25].CLN_bps # PreviousPage[2].rows[25].CLN_bps
    /\ emitted[2].rows[25].bps # PreviousPage[2].rows[25].bps

\* The CLN inputs.
ClnInputs == {"include_cln", "cln_amount", "cln_cost_bps", "compare_mode"}

\* C26: the No-CLN scenario does not depend on the CLN inputs: two
\* calculations whose inputs differ only in include_cln, cln_amount,
\* cln_cost_bps or compare_mode emit identical No-CLN rows, also when
\* cln_amount is above rcf_limit and is clamped.
C26_NoClnIndependentOfClnInputs ==
    TwoCalculations(ClnInputs, TRUE) =>
        /\ emitted[1] = PreviousPage[1]
        /\ \A t \in DOMAIN emitted :
              emitted[t].subheader = "No CLN Scenario" => emitted[t].rows = PreviousPage[1].rows

\* C26 witness: a calculation with a CLN amount above the limit, clamped,
\* after one without CLN, and CLN tables that differ.
C26_Witness ==
    /\ TwoCalculations(ClnInputs, TRUE)
    /\ include_cln /\ ~PreviousInputs[12]
    /\ RLt(rcf_limit, cln_amount) /\ cln_amount_clamped = rcf_limit
    /\ cln_cost_bps # PreviousInputs[14]
    /\ Len(emitted) = 3 /\ Len(PreviousPage) = 1

\* The inputs of the documented example, amounts in millions of ZAR.
ExampleInputs ==
    /\ rcf_limit = R(2000) /\ drawn_percentage = Q(35, 100)
    /\ margin_bps = R(250) /\ funding_bps = R(-114)
    /\ credit_bps = R(-29) /\ capital_bps = R(-115)
    /\ commitment_fee_bps = R(75) /\ commitment_fee_funding_bps = R(-13)
    /\ commitment_fee_credit_bps = R(-12) /\ commitment_fee_capital_bps = R(-50)
    /\ cln_amount = R(300)

OnWholeFacility(row) ==
    /\ row.ZAR.k = "num" /\ row.BPS.k = "num"
    /\ row.ZAR.v = RDiv(RMul(rcf_limit, row.BPS.v), R(TenThousand))

\* The blended-view rows of the two scenario tables: margin, funding, CLN
\* cost, credit, capital, net revenue.
NoClnBlendedRows == 16..21
ClnBlendedRows == 19..24

\* C27: in both scenarios the blended ZAR and bps columns are consistent
\* against the whole facility: for each blended leg (margin, funding, CLN
\* cost, credit, capital) and for net revenue, the ZAR amount is
\* rcf_limit * bps / 10000, whatever the drawn percentage.
C27_BlendedOnWholeFacility ==
    calc_btn =>
        /\ \A r \in NoClnBlendedRows : OnWholeFacility(NoClnShown[r])
        /\ \A i \in ClnScenarioTables :
              \A r \in ClnBlendedRows : OnWholeFacility(emitted[i].rows[r])

\* C27 witness: a CLN table for a partly drawn facility, with a CLN amount
\* that is clamped and a CLN cost leg that is not 0.
C27_Witness ==
    /\ calc_btn /\ ClnShown
    /\ drawn_percentage = Q(7, 20) /\ RLt(rcf_limit, cln_amount)
    /\ \E i \in ClnScenarioTables :
          /\ ~IsZero(emitted[i].rows[21].ZAR.v)
          /\ emitted[i].rows[24].ZAR # NoClnShown[21].ZAR
          /\ emitted[i].rows[18].Item.text = "Blended View"

\* C28: net revenue in ZAR equals the sum of the per-portion net spreads:
\* in the No-CLN table the drawn net spread plus the undrawn net spread, in
\* the CLN table the same two plus the CLN specific cost.
C28_NetRevenueIsSumOfNetSpreads ==
    calc_btn =>
        /\ blended_view_net_revenue_zar = RAdd(net_spread_zar, net_spread_commit_fees_zar)
        /\ NoClnShown[21].ZAR.v = RAdd(NoClnShown[7].ZAR.v, NoClnShown[13].ZAR.v)
        /\ ClnShown =>
              cln_blended_netrev_zar =
                  RAdd(RAdd(cln_net_spread_zar, cln_net_commit_fee_zar), cln_specific_cost_zar)
        /\ \A i \in ClnScenarioTables :
              LET t == emitted[i].rows
              IN  t[24].ZAR.v = RAdd(RAdd(t[8].ZAR.v, t[14].ZAR.v), t[16].ZAR.v)

\* C28 witness: a CLN table for a partly drawn facility in which the two
\* net spreads and the CLN cost are all different from 0.
C28_Witness ==
    /\ calc_btn /\ ClnShown /\ drawn_percentage = Q(7, 20)
    /\ \E i \in ClnScenarioTables :
          LET t == emitted[i].rows
          IN  /\ t[8].Item = Bold("Net Spread") /\ t[14].Item = Bold("Net Spread")
              /\ t[16].Item = Bold("CLN Cost") /\ t[24].Item = Bold("Net Revenue")
              /\ ~IsZero(t[8].ZAR.v) /\ ~IsZero(t[14].ZAR.v) /\ ~IsZero(t[16].ZAR.v)
    /\ ~IsZero(NoClnShown[7].ZAR.v) /\ ~IsZero(NoClnShown[13].ZAR.v)

\* CLN net revenue minus No-CLN net revenue, in ZAR.
NetRevenueDifferential == RSub(cln_blended_netrev_zar, blended_view_net_revenue_zar)

\* The credit and capital rates are non-positive, the CLN cost rate non-negative.
CostsSigned ==
    /\ \A rate \in {credit_bps, capital_bps, commitment_fee_credit_bps,
                    commitment_fee_capital_bps} : ~RLt(Zero, rate)
    /\ ~RLt(cln_cost_bps, Zero)

\* C29: whenever the CLN scenario is computed, the net-revenue differential
\* in ZAR is the CLN specific cost minus the covered share of the blended
\* credit and capital costs; so with non-positive credit and capital rates
\* and a non-negative CLN cost rate the CLN net revenue is not below the
\* No-CLN net revenue.
C29_NetRevenueDifferential ==
    (calc_btn /\ Len(emitted) > 1) =>
        /\ NetRevenueDifferential =
              RSub(cln_specific_cost_zar,
                   RMul(cln_percentage,
                        RAdd(blended_view_credit_zar, blended_view_capital_zar)))
        /\ \A i \in ComparisonTables :
              /\ emitted[i].rows[23].Item = Plain("Net Revenue")
              /\ emitted[i].rows[23].Differential = Num(NetRevenueDifferential)
        /\ \A i \in ClnScenarioTables :
              RSub(emitted[i].rows[24].ZAR.v, NoClnShown[21].ZAR.v) = NetRevenueDifferential
        /\ CostsSigned => ~RLt(cln_blended_netrev_zar, blended_view_net_revenue_zar)

\* C29 witness: a comparison table with negative credit and capital rates
\* and a positive CLN cost rate, whose CLN net revenue is above the No-CLN
\* net revenue.
C29_Witness ==
    /\ calc_btn /\ ComparisonShown /\ CostsSigned
    /\ RLt(credit_bps, Zero) /\ RLt(capital_bps, Zero) /\ RLt(Zero, cln_cost_bps)
    /\ RLt(Zero, NetRevenueDifferential)
    /\ RLt(cln_percentage, One)

\* The headings of the tables on the page, in the order emitted.
Subheaders == [i \in DOMAIN emitted |-> emitted[i].subheader]

\* The headings each display mode emits after the No-CLN table.
ModeSubheaders(mode) ==
    IF mode = ShowClnOnly THEN << "CLN Scenario Results" >>
    ELSE IF mode = CompareSideBySide THEN << "No CLN Scenario", "CLN Scenario" >>
    ELSE IF mode = SingleComparisonTable THEN << "CLN Comparison Analysis" >>
    ELSE << >>

\* What a run leaves on the page: nothing unless Calculate was pressed;
\* otherwise the No-CLN table first, then the output of the selected
\* display mode when include_cln holds and cln_amount > 0, and nothing more.
RunOutput ==
    /\ ~calc_btn => emitted = << >>
    /\ calc_btn =>
          /\ Len(emitted) >= 1
          /\ Subheaders[1] = "NO CLN Output Table"
          /\ IF include_cln /\ RLt(Zero, cln_amount)
             THEN /\ compare_mode \in CompareModes
                  /\ Subheaders = << "NO CLN Output Table" >> \o ModeSubheaders(compare_mode)
             ELSE Len(emitted) = 1

\* C30: over any sequence of runs, tables are emitted only in a run in
\* which Calculate was pressed; in every such run the No-CLN table comes
\* first, followed by the output of exactly one display mode when
\* include_cln is true and cln_amount > 0, and by nothing otherwise.
C30_TablesOnlyOnCalculate ==
    [][RunOutput' /\ (emitted' # << >> => calc_btn')]_vars

\* C30 witness: a run in which Calculate was pressed with CLN requested in
\* the side-by-side mode: the No-CLN table, then the two tables of the mode.
C30_Witness ==
    /\ calc_btn /\ include_cln /\ RLt(Zero, cln_amount)
    /\ compare_mode = CompareSideBySide
    /\ Subheaders = << "NO CLN Output Table", "No CLN Scenario", "CLN Scenario" >>

========================================================================
